---- MODULE Spec2Model ----
(***************************************************************************)
(* A model of the alpm.rs database binding (alpm/src/db.rs) and of the     *)
(* version comparator (alpm/src/version.rs).                               *)
(*                                                                         *)
(* The state is the native library's registry as the binding sees it (one  *)
(* record per alpm_db_t the library ever handed out), the Rust values the  *)
(* client holds (Db values, and the Package/Group/list views obtained from  *)
(* them), the library's last-error code, and a record of the last public   *)
(* operation with everything it did at the foreign-function boundary.      *)
(*                                                                         *)
(* Rust's ownership rules are part of the program: an operation taking     *)
(* &self needs a Db value that has not been moved, an operation taking     *)
(* &mut self additionally needs that no value borrowed from the Db is      *)
(* still alive, unregister(self) moves the Db, and                         *)
(* unregister_all_syncdbs(&mut self) needs that nothing borrowed from the   *)
(* handle is alive.  These are the guards of the actions.                  *)
(*                                                                         *)
(* libalpm itself is outside the repository.  Its functions are modelled   *)
(* at their call sites by the convention the binding relies on: a list is  *)
(* a chain of nodes owned by whoever allocated it, a failure is a null     *)
(* pointer or a non-zero status with the code left in the handle's         *)
(* last-error slot, alpm_list_free releases the nodes of a list and not    *)
(* what they point to.                                                     *)
(***************************************************************************)
EXTENDS Integers, Sequences, FiniteSets, TLC

\* ------------------------------------------------------------------ bounds

\* Db values (and alpm_db_t objects) a run may create.
MaxDbs == 1
\* Longest Rust string offered as an argument.
MaxStrLen == 2
\* Longest server list (the cap of add_server and of set_servers' input).
MaxServers == 2
\* Views (Package, Group, list adapters, collected vectors) alive at once.
MaxViews == 2

\* ----------------------------------------------------------------- strings

\* Bytes of a Rust string: 0 is NUL, 1 stands for any other byte.
Chars == {0, 1}

DbPtrs == 1..MaxDbs

SeqsUpTo(S, n) == UNION {[1..k -> S] : k \in 0..n}

\* The Rust strings offered as arguments (non-empty, NUL allowed inside).
Strs == SeqsUpTo(Chars, MaxStrLen) \ {<<>>}

HasNul(s) == \E i \in DOMAIN s : s[i] = 0

\* CString::new: an interior NUL is an error, otherwise the bytes get a
\* terminating NUL.
CStringNew(s) ==
  IF HasNul(s) THEN [ok |-> FALSE, bytes |-> <<>>]
  ELSE [ok |-> TRUE, bytes |-> s \o <<0>>]

\* What C reads through a char pointer: the bytes before the first NUL.
CStrRead(bytes) ==
  LET nuls == {i \in DOMAIN bytes : bytes[i] = 0}
      n == IF nuls = {} THEN Len(bytes)
           ELSE (CHOOSE i \in nuls : \A j \in nuls : i <= j) - 1
  IN SubSeq(bytes, 1, n)

\* strdup: the library's own copy of a C string, terminator included.
StrDup(bytes) == CStrRead(bytes) \o <<0>>

\* utils::from_cstr: the &str view of a C string.
from_cstr(bytes) == CStrRead(bytes)

\* utils::to_strlist: a native list of C strings built from Rust strings.
\* It returns a bare list pointer (db.rs:63, db.rs:113), so an entry that
\* cannot be converted cannot come back as an Err: the conversion panics.
to_strlist(list) ==
  IF \E i \in DOMAIN list : HasNul(list[i])
  THEN [ok |-> FALSE, items |-> <<>>]
  ELSE [ok |-> TRUE, items |-> [i \in DOMAIN list |-> CStringNew(list[i]).bytes]]

\* ------------------------------------------------------------------- state

VARIABLES
  native,    \* per alpm_db_t: the library's record of the database
  dbs,       \* per Db value: where the client's value is in its life
  expected,  \* per database: the server list the calls so far ask for
  pm_errno,  \* the handle's last-error code
  last,      \* the last public operation and what it did
  views,     \* the values borrowed from databases that are still alive
  mem        \* what has gone wrong with native memory so far: a list released
             \* twice, a released node read by an adapter or by the library

vars == <<native, dbs, expected, pm_errno, last, views, mem>>

NoDb == [state |-> "unalloc", treename |-> <<>>, servers |-> <<>>,
         usage |-> "ALL", cache |-> "none"]
FreedDb == [NoDb EXCEPT !.state = "freed"]

NoValue == [state |-> "none", regname |-> <<>>]

NoView == [kind |-> "none", db |-> 0, lt |-> "none", src |-> "none",
           free |-> "None", pos |-> 0]

Usages == {"ALL", "SYNC"}

\* The package cache of every database of the model holds one package,
\* named by the one-byte string, in one group of the same name.
CacheNames == << <<1>> >>

\* What an operation leaves in `last`.
\*   res     Ok | Err | NulError | Panic | Unit | Rejected | Crash
\*   code    the native error code an Err carries
\*   native  the native functions called, in order
\*   nul     a string argument held an interior NUL
\*   failed  a native call reported failure (null, or a non-zero status)
\*   tmp     what became of the temporary list of to_strlist
\*   val     the value returned, where the model keeps it
\*   moved   the Db value named had been consumed by unregister
\*   stale   a native call was given a database the library had released
Rec(op, d, res, code, nat, nul, failed, tmp, val) ==
  [op |-> op, db |-> d, res |-> res, code |-> code, native |-> nat,
   nul |-> nul, failed |-> failed, tmp |-> tmp, val |-> val,
   moved |-> d # 0 /\ dbs[d].state = "moved",
   stale |-> d # 0 /\ nat # <<>> /\ native[d].state = "freed"]

\* Alpm::check_null and Alpm::check_ret: a null pointer or a non-zero status
\* becomes an error carrying the handle's last-error code.
check_null(isNull, errno) ==
  IF isNull THEN [res |-> "Err", code |-> errno] ELSE [res |-> "Ok", code |-> "OK"]

check_ret(ret, errno) ==
  IF ret # 0 THEN [res |-> "Err", code |-> errno] ELSE [res |-> "Ok", code |-> "OK"]

\* ------------------------------------------------------- ownership guards

Live(d) == dbs[d].state = "live"

\* Views whose type borrows the Db value d (an elided lifetime of &self).
BorrowsDb(d) == {v \in DOMAIN views : views[v].kind # "none" /\ views[v].db = d
                                      /\ views[v].lt = "db"}

\* &self: the value is there.  &mut self, and self by value: nothing borrowed
\* from it is alive.
CanShare(d) == Live(d)
CanMut(d) == Live(d) /\ BorrowsDb(d) = {}

NoViews == \A v \in DOMAIN views : views[v].kind = "none"

Init ==
  /\ native = [d \in DbPtrs |-> NoDb]
  /\ dbs = [d \in DbPtrs |-> NoValue]
  /\ expected = [d \in DbPtrs |-> <<>>]
  /\ pm_errno = "OK"
  /\ last = [op |-> "new", db |-> 0, res |-> "Ok", code |-> "OK", native |-> <<>>,
             nul |-> FALSE, failed |-> FALSE, tmp |-> "none", val |-> "",
             moved |-> FALSE, stale |-> FALSE]
  /\ views = [v \in 1..MaxViews |-> NoView]
  /\ mem = [doubleFree |-> FALSE, uafRead |-> FALSE, nativeUaf |-> FALSE]

\* --------------------------------------------------------------- Alpm (handle)

\* Alpm::register_syncdb(&self, name, sig_level).  The library refuses a name
\* it already has registered.
register_syncdb(name) ==
  LET c == CStringNew(name) IN
  IF ~c.ok THEN
    /\ last' = Rec("register_syncdb", 0, "NulError", "OK", <<>>, TRUE, FALSE, "none", "")
    /\ UNCHANGED <<native, dbs, expected, pm_errno, views, mem>>
  ELSE
    LET tree == StrDup(c.bytes)
        dup == \E e \in DbPtrs : native[e].state = "registered" /\ native[e].treename = tree
        r == check_null(dup, "ERR_DB_NOT_NULL")
    IN
    IF dup THEN
      /\ pm_errno' = "ERR_DB_NOT_NULL"
      /\ last' = Rec("register_syncdb", 0, r.res, r.code, <<"alpm_register_syncdb">>,
                     FALSE, TRUE, "none", "")
      /\ UNCHANGED <<native, dbs, expected, views, mem>>
    ELSE
      /\ \E d \in DbPtrs :
           /\ native[d].state = "unalloc"
           /\ \A e \in DbPtrs : e < d => native[e].state # "unalloc"
           /\ native' = [native EXCEPT ![d] =
                           [state |-> "registered", treename |-> tree, servers |-> <<>>,
                            usage |-> "ALL", cache |-> "live"]]
           /\ dbs' = [dbs EXCEPT ![d] = [state |-> "live", regname |-> name]]
           /\ last' = Rec("register_syncdb", d, r.res, r.code, <<"alpm_register_syncdb">>,
                          FALSE, FALSE, "none", "")
      /\ UNCHANGED <<expected, pm_errno, views, mem>>

\* Alpm::unregister_all_syncdbs(&mut self): no Db and no view is alive.
unregister_all_syncdbs(ok) ==
  /\ \A d \in DbPtrs : ~Live(d)
  /\ NoViews
  /\ LET r == check_ret(IF ok THEN 0 ELSE -1, "ERR_SYSTEM") IN
     /\ last' = Rec("unregister_all_syncdbs", 0, r.res, r.code,
                    <<"alpm_unregister_all_syncdbs">>, FALSE, ~ok, "none", "")
     /\ pm_errno' = IF ok THEN pm_errno ELSE "ERR_SYSTEM"
     /\ native' = IF ok
                  THEN [d \in DbPtrs |-> IF native[d].state = "registered"
                                         THEN FreedDb ELSE native[d]]
                  ELSE native
     /\ expected' = IF ok THEN [d \in DbPtrs |-> <<>>] ELSE expected
  /\ UNCHANGED <<dbs, views, mem>>

\* The client lets a Db value go out of scope.  Db has no destructor: the
\* database stays registered.
drop_db(d) ==
  /\ CanMut(d)
  /\ dbs' = [dbs EXCEPT ![d].state = "dropped"]
  /\ last' = Rec("drop_db", d, "Unit", "OK", <<>>, FALSE, FALSE, "none", "")
  /\ UNCHANGED <<native, expected, pm_errno, views, mem>>

\* ---------------------------------------------------------------------- Db

\* The first free slot for a view the client keeps, 0 when it keeps none.
FreeSlots == {v \in DOMAIN views : views[v].kind = "none"}
Slot(keep) == IF keep THEN CHOOSE v \in FreeSlots : \A w \in FreeSlots : v <= w ELSE 0
CanKeep(keep) == keep => FreeSlots # {}

Store(keep, view) == IF keep THEN [views EXCEPT ![Slot(keep)] = view] ELSE views

\* A native function that follows the nodes of d's package cache list reads
\* released memory once those nodes have been released.
NativeReadsCache(d) == [mem EXCEPT !.nativeUaf = @ \/ native[d].cache = "freed"]

\* The same for an adapter reading a node of that list.
ReadsCache(d) == [mem EXCEPT !.uafRead = @ \/ native[d].cache = "freed"]

RemoveFirst(seq, x) ==
  IF \E i \in DOMAIN seq : seq[i] = x
  THEN LET k == CHOOSE i \in DOMAIN seq : seq[i] = x /\ \A j \in DOMAIN seq : seq[j] = x => i <= j
       IN SubSeq(seq, 1, k - 1) \o SubSeq(seq, k + 1, Len(seq))
  ELSE seq

\* name() handing out the library's bytes as they are, terminator included.
name_with_terminator(d) == native[d].treename

\* Db::name(&self)
name(d) == from_cstr(native[d].treename)

Name(d) ==
  /\ CanShare(d)
  /\ last' = Rec("name", d, "Ok", "OK", <<"alpm_db_get_name">>, FALSE, FALSE, "none", "")
  /\ UNCHANGED <<native, dbs, expected, pm_errno, views, mem>>

\* Db::unregister(self): the value is moved into the call whatever the
\* library answers, and the answer is dropped.  `after` is the state the
\* client's value is left in.
unregister_as(d, ok, after) ==
  /\ CanMut(d)
  /\ dbs' = [dbs EXCEPT ![d].state = after]
  /\ native' = IF ok THEN [native EXCEPT ![d] = FreedDb] ELSE native
  /\ expected' = IF ok THEN [expected EXCEPT ![d] = <<>>] ELSE expected
  /\ pm_errno' = IF ok THEN pm_errno ELSE "ERR_SYSTEM"
  /\ mem' = IF ok THEN NativeReadsCache(d) ELSE mem
  /\ last' = Rec("unregister", d, "Unit", "OK", <<"alpm_db_unregister">>, FALSE, ~ok,
                 "none", "")
  /\ UNCHANGED views

\* unregister taking &self: the client's value stays usable.
unregister_by_ref(d, ok) == unregister_as(d, ok, "live")

unregister(d, ok) == unregister_as(d, ok, "moved")

\* Db::add_server(&mut self, server), given the conversion of `server`.
add_server_via(d, server, ok, c) ==
  /\ CanMut(d)
  /\ IF ~c.ok THEN
       /\ last' = Rec("add_server", d, "NulError", "OK", <<>>, HasNul(server), FALSE,
                      "none", "")
       /\ UNCHANGED <<native, expected, pm_errno>>
     ELSE
       /\ Len(native[d].servers) < MaxServers
       /\ LET r == check_ret(IF ok THEN 0 ELSE -1, "ERR_SYSTEM") IN
          last' = Rec("add_server", d, r.res, r.code, <<"alpm_db_add_server">>,
                      HasNul(server), ~ok, "none", "")
       /\ native' = IF ok THEN [native EXCEPT ![d].servers = Append(@, StrDup(c.bytes))]
                    ELSE native
       /\ expected' = IF ok THEN [expected EXCEPT ![d] = Append(@, server)] ELSE expected
       /\ pm_errno' = IF ok THEN pm_errno ELSE "ERR_SYSTEM"
  /\ UNCHANGED <<dbs, views, mem>>

\* add_server building its C string without looking for a NUL.
add_server_unchecked(d, server, ok) ==
  add_server_via(d, server, ok, [ok |-> TRUE, bytes |-> server \o <<0>>])

\* Db::add_server(&mut self, server)
add_server(d, server, ok) == add_server_via(d, server, ok, CStringNew(server))

\* An adapter that starts at the second node of the list.
servers_from_second(d) ==
  [i \in 1..(Len(native[d].servers) - 1) |-> from_cstr(native[d].servers[i + 1])]

\* What collecting Db::servers(&self) yields: every node's string through
\* from_cstr, in list order.
servers(d) == [i \in DOMAIN native[d].servers |-> from_cstr(native[d].servers[i])]

\* Db::set_servers(&mut self, list): the list built by to_strlist is handed to
\* the library, which keeps it when it reports success.
set_servers(d, list, ok) ==
  /\ CanMut(d)
  /\ LET t == to_strlist(list) IN
     IF ~t.ok THEN
       /\ last' = Rec("set_servers", d, "Panic", "OK", <<>>, TRUE, FALSE, "none", "")
       /\ UNCHANGED <<native, expected, pm_errno>>
     ELSE
       /\ LET r == check_ret(IF ok THEN 0 ELSE -1, "ERR_SYSTEM") IN
          last' = Rec("set_servers", d, r.res, r.code, <<"alpm_db_set_servers">>, FALSE, ~ok,
                      IF ok THEN "handed" ELSE "leaked", "")
       /\ native' = IF ok THEN [native EXCEPT ![d].servers = t.items] ELSE native
       /\ expected' = IF ok THEN [expected EXCEPT ![d] = list] ELSE expected
       /\ pm_errno' = IF ok THEN pm_errno ELSE "ERR_SYSTEM"
  /\ UNCHANGED <<dbs, views, mem>>

\* Db::remove_server(&mut self, server): the library reports a URL it does not
\* hold with a non-zero status.
remove_server(d, server) ==
  /\ CanMut(d)
  /\ LET c == CStringNew(server) IN
     IF ~c.ok THEN
       /\ last' = Rec("remove_server", d, "NulError", "OK", <<>>, TRUE, FALSE, "none", "")
       /\ UNCHANGED <<native, expected, pm_errno>>
     ELSE
       LET url == StrDup(c.bytes)
           there == \E i \in DOMAIN native[d].servers : native[d].servers[i] = url
           r == check_ret(IF there THEN 0 ELSE 1, "ERR_SYSTEM")
       IN
       /\ last' = Rec("remove_server", d, r.res, r.code, <<"alpm_db_remove_server">>, FALSE,
                      ~there, "none", "")
       /\ native' = [native EXCEPT ![d].servers = RemoveFirst(@, url)]
       /\ expected' = [expected EXCEPT ![d] = RemoveFirst(@, server)]
       /\ pm_errno' = IF there THEN pm_errno ELSE "ERR_SYSTEM"
  /\ UNCHANGED <<dbs, views, mem>>

\* Db::pkg(&self, name) -> Result<Package>: the Package borrows the Db.
pkg(d, pkgname, keep) ==
  /\ CanShare(d)
  /\ CanKeep(keep)
  /\ LET c == CStringNew(pkgname) IN
     IF ~c.ok THEN
       /\ last' = Rec("pkg", d, "NulError", "OK", <<>>, TRUE, FALSE, "none", "")
       /\ UNCHANGED <<pm_errno, views, mem>>
     ELSE
       LET found == \E i \in DOMAIN CacheNames : CacheNames[i] = CStrRead(c.bytes)
           r == check_null(~found, "ERR_PKG_NOT_FOUND")
       IN
       /\ last' = Rec("pkg", d, r.res, r.code, <<"alpm_db_get_pkg">>, FALSE, ~found,
                      "none", "")
       /\ pm_errno' = IF found THEN pm_errno ELSE "ERR_PKG_NOT_FOUND"
       /\ mem' = NativeReadsCache(d)
       /\ views' = IF found
                   THEN Store(keep, [kind |-> "Package", db |-> d, lt |-> "db",
                                     src |-> "pkg", free |-> "None", pos |-> 0])
                   ELSE views
  /\ UNCHANGED <<native, dbs, expected>>

\* Db::group(&self, name) -> Result<Group>: the Group borrows the Db.
group(d, grpname, keep) ==
  /\ CanShare(d)
  /\ CanKeep(keep)
  /\ LET c == CStringNew(grpname) IN
     IF ~c.ok THEN
       /\ last' = Rec("group", d, "NulError", "OK", <<>>, TRUE, FALSE, "none", "")
       /\ UNCHANGED <<pm_errno, views, mem>>
     ELSE
       LET found == \E i \in DOMAIN CacheNames : CacheNames[i] = CStrRead(c.bytes)
           r == check_null(~found, "ERR_PKG_NOT_FOUND")
       IN
       /\ last' = Rec("group", d, r.res, r.code, <<"alpm_db_get_group">>, FALSE, ~found,
                      "none", "")
       /\ pm_errno' = IF found THEN pm_errno ELSE "ERR_PKG_NOT_FOUND"
       /\ mem' = NativeReadsCache(d)
       /\ views' = IF found
                   THEN Store(keep, [kind |-> "Group", db |-> d, lt |-> "db",
                                     src |-> "group", free |-> "None", pos |-> 0])
                   ELSE views
  /\ UNCHANGED <<native, dbs, expected>>

\* Db::siglevel(&self)
siglevel(d) ==
  /\ CanShare(d)
  /\ last' = Rec("siglevel", d, "Ok", "OK", <<"alpm_db_get_siglevel">>, FALSE, FALSE,
                 "none", "")
  /\ UNCHANGED <<native, dbs, expected, pm_errno, views, mem>>

\* Db::is_valid(&self)
is_valid(d, ok) ==
  /\ CanShare(d)
  /\ LET r == check_ret(IF ok THEN 0 ELSE -1, "ERR_SYSTEM") IN
     last' = Rec("is_valid", d, r.res, r.code, <<"alpm_db_get_valid">>, FALSE, ~ok, "none", "")
  /\ pm_errno' = IF ok THEN pm_errno ELSE "ERR_SYSTEM"
  /\ UNCHANGED <<native, dbs, expected, views, mem>>

\* Db::set_usage(&mut self, usage)
set_usage(d, u, ok) ==
  /\ CanMut(d)
  /\ LET r == check_ret(IF ok THEN 0 ELSE -1, "ERR_SYSTEM") IN
     last' = Rec("set_usage", d, r.res, r.code, <<"alpm_db_set_usage">>, FALSE, ~ok, "none", "")
  /\ native' = IF ok THEN [native EXCEPT ![d].usage = u] ELSE native
  /\ pm_errno' = IF ok THEN pm_errno ELSE "ERR_SYSTEM"
  /\ UNCHANGED <<dbs, expected, views, mem>>

\* Db::usage(&self)
usage(d, ok) ==
  /\ CanShare(d)
  /\ LET r == check_ret(IF ok THEN 0 ELSE -1, "ERR_SYSTEM") IN
     last' = Rec("usage", d, r.res, r.code, <<"alpm_db_get_usage">>, FALSE, ~ok, "none",
                 IF ok THEN native[d].usage ELSE "")
  /\ pm_errno' = IF ok THEN pm_errno ELSE "ERR_SYSTEM"
  /\ UNCHANGED <<native, dbs, expected, views, mem>>

\* The operations of a Database value.
DbOps == {"name", "unregister", "add_server", "servers", "set_servers", "remove_server",
          "pkg", "pkgs", "group", "search", "groups", "siglevel", "is_valid", "set_usage",
          "usage"}

\* The client's program names a Db value that unregister(self) has consumed:
\* the compiler refuses the program, and nothing runs.
use_after_move(op, d) ==
  /\ dbs[d].state = "moved"
  /\ last' = Rec(op, d, "Rejected", "OK", <<>>, FALSE, FALSE, "none", "")
  /\ UNCHANGED <<native, dbs, expected, pm_errno, views, mem>>

\* ------------------------------------------------------------ list adapters

\* An AlpmList is a native list pointer, the handle, and a FreeMethod.  The
\* lists of the model: a database's server list, its package cache list, and
\* the list alpm_db_search allocates for its result.
ListView(d, src, free) ==
  [kind |-> "List", db |-> d, lt |-> "db", src |-> src, free |-> free, pos |-> 0]

\* Whether the adapter walks the package cache list of its database.
OnCache(view) == view.src \in {"pkgs", "groups"}

ListLen(view) ==
  IF view.src = "servers" THEN Len(native[view.db].servers) ELSE Len(CacheNames)

\* Db::servers(&self) -> AlpmList<&str>, FreeMethod::None
servers_list(d, keep) ==
  /\ CanShare(d)
  /\ CanKeep(keep)
  /\ last' = Rec("servers", d, "Ok", "OK", <<"alpm_db_get_servers">>, FALSE, FALSE, "none", "")
  /\ views' = Store(keep, ListView(d, "servers", "None"))
  /\ UNCHANGED <<native, dbs, expected, pm_errno, mem>>

\* Db::pkgs(&self) -> Result<AlpmList<Package>>, FreeMethod::None, over the
\* list alpm_db_get_pkgcache returns.
pkgs(d, keep, ok) ==
  /\ CanShare(d)
  /\ CanKeep(keep)
  /\ LET r == check_null(~ok, "ERR_SYSTEM") IN
     last' = Rec("pkgs", d, r.res, r.code, <<"alpm_db_get_pkgcache">>, FALSE, ~ok, "none", "")
  /\ pm_errno' = IF ok THEN pm_errno ELSE "ERR_SYSTEM"
  /\ views' = IF ok THEN Store(keep, ListView(d, "pkgs", "None")) ELSE views
  /\ UNCHANGED <<native, dbs, expected, mem>>

\* Db::groups(&self) -> Result<AlpmList<Group>>, FreeMethod::FreeList, over
\* the list alpm_db_get_pkgcache returns.
groups(d, keep, ok) ==
  /\ CanShare(d)
  /\ CanKeep(keep)
  /\ LET r == check_null(~ok, "ERR_SYSTEM") IN
     last' = Rec("groups", d, r.res, r.code, <<"alpm_db_get_pkgcache">>, FALSE, ~ok, "none", "")
  /\ pm_errno' = IF ok THEN pm_errno ELSE "ERR_SYSTEM"
  /\ views' = IF ok THEN Store(keep, ListView(d, "groups", "FreeList")) ELSE views
  /\ UNCHANGED <<native, dbs, expected, mem>>

\* alpm_db_search: the packages of the cache every pattern matches, in a list
\* of its own; a pattern of the model matches the name it spells.  No pattern,
\* or no match, is the null list.
SearchHits(patterns) ==
  {i \in DOMAIN CacheNames :
     patterns # <<>> /\ \A j \in DOMAIN patterns : CStrRead(patterns[j]) = CacheNames[i]}

\* Db::search(&self, list) -> Result<AlpmList<Package<'a>>>, FreeMethod::FreeList.
\* alpm_list_free releases the nodes of the pattern list; the strings
\* to_strlist allocated for it stay allocated.
search(d, list, keep) ==
  /\ CanShare(d)
  /\ CanKeep(keep)
  /\ LET t == to_strlist(list) IN
     IF ~t.ok THEN
       /\ last' = Rec("search", d, "Panic", "OK", <<>>, TRUE, FALSE, "none", "")
       /\ UNCHANGED <<pm_errno, views, mem>>
     ELSE
       LET null == SearchHits(t.items) = {}
           r == check_null(null, "ERR_PKG_NOT_FOUND")
       IN
       /\ last' = Rec("search", d, r.res, r.code, <<"alpm_db_search", "alpm_list_free">>,
                      FALSE, null, IF list = <<>> THEN "none" ELSE "nodes_freed", "")
       /\ pm_errno' = IF null THEN "ERR_PKG_NOT_FOUND" ELSE pm_errno
       /\ mem' = NativeReadsCache(d)
       /\ views' = IF null THEN views
                   ELSE Store(keep, ListView(d, "search", "FreeList"))
  /\ UNCHANGED <<native, dbs, expected>>

\* Iterator::next on an AlpmList: the node under the cursor is read and the
\* cursor moves on; at the end of the list nothing is read.  A node that has
\* been released holds anything: the adapter may take it for the end of the
\* list or for one more element.
next(v) ==
  /\ views[v].kind = "List"
  /\ LET view == views[v]
         inList == view.pos < ListLen(view)
         gone == OnCache(view) /\ native[view.db].cache = "freed"
     IN
     \E more \in (IF inList /\ gone THEN BOOLEAN ELSE {inList}) :
       /\ views' = IF more THEN [views EXCEPT ![v].pos = @ + 1] ELSE views
       /\ mem' = IF inList /\ OnCache(view) THEN ReadsCache(view.db) ELSE mem
       /\ last' = Rec("next", view.db, "Ok", "OK", <<>>, FALSE, FALSE, "none",
                      IF more THEN "Some" ELSE "None")
  /\ UNCHANGED <<native, dbs, expected, pm_errno>>

\* The end of an adapter's life: its FreeMethod is applied to its list, once.
\* FreeList is alpm_list_free on the list the adapter was built over.
Release(view, n, m) ==
  IF view.kind = "List" /\ view.free = "FreeList" /\ OnCache(view)
  THEN [native |-> [n EXCEPT ![view.db].cache = "freed"],
        mem |-> [m EXCEPT !.doubleFree = @ \/ n[view.db].cache = "freed"]]
  ELSE [native |-> n, mem |-> m]

Applied(view) == IF view.kind = "List" /\ view.free = "FreeList" THEN "freed" ELSE "kept"

\* A view goes out of scope.
drop_view(v) ==
  /\ views[v].kind # "none"
  /\ LET view == views[v]
         r == Release(view, native, mem)
     IN
     /\ native' = r.native
     /\ mem' = r.mem
     /\ last' = Rec("drop_view", view.db, "Unit", "OK",
                    IF Applied(view) = "freed" THEN <<"alpm_list_free">> ELSE <<>>,
                    FALSE, FALSE, "none", Applied(view))
     /\ views' = [views EXCEPT ![v] = NoView]
  /\ UNCHANGED <<dbs, expected, pm_errno>>

\* Iterator::collect::<Vec<_>>(): the rest of the list is read, the adapter
\* ends, and the client holds the elements.  The elements of search are
\* Package<'a>, which borrow the handle and not the Db; the elements of the
\* other lists borrow the Db.
collect(v) ==
  /\ views[v].kind = "List"
  /\ LET view == views[v]
         more == view.pos < ListLen(view)
         read == IF more /\ OnCache(view) THEN ReadsCache(view.db) ELSE mem
         r == Release(view, native, read)
     IN
     /\ native' = r.native
     /\ mem' = r.mem
     /\ last' = Rec("collect", view.db, "Ok", "OK",
                    IF Applied(view) = "freed" THEN <<"alpm_list_free">> ELSE <<>>,
                    FALSE, FALSE, "none", Applied(view))
     /\ views' = [views EXCEPT ![v] =
                    [kind |-> "Vec", db |-> view.db,
                     lt |-> IF view.src = "search" THEN "handle" ELSE "db",
                     src |-> view.src, free |-> "None", pos |-> 0]]
  /\ UNCHANGED <<dbs, expected, pm_errno>>

\* The client uses a Package or a Group, or an element of a collected vector:
\* an accessor such as Package::name reads the native object behind it.  Read
\* from a database the library has released, it returns whatever is there or
\* the process dies.
use_view(v) ==
  /\ views[v].kind \in {"Package", "Group", "Vec"}
  /\ \E res \in (IF native[views[v].db].state = "freed" THEN {"Ok", "Crash"} ELSE {"Ok"}) :
       last' = Rec("use_view", views[v].db, res, "OK", <<"alpm_pkg_get_name">>, FALSE, FALSE,
                   "none", "")
  /\ UNCHANGED <<native, dbs, expected, pm_errno, views, mem>>

\* ------------------------------------------------------------------ version

\* impl From<c_int> for Vercmp
VercmpFrom(int) == IF int < 0 THEN "Older" ELSE IF int > 0 THEN "Newer" ELSE "Equal"

\* vercmp(a, b): both strings are converted before the comparator is called.
vercmp(a, b, ret) ==
  /\ IF ~CStringNew(a).ok \/ ~CStringNew(b).ok
     THEN last' = Rec("vercmp", 0, "NulError", "OK", <<>>, TRUE, FALSE, "none", "")
     ELSE last' = Rec("vercmp", 0, "Ok", "OK", <<"alpm_pkg_vercmp">>, FALSE, FALSE, "none",
                      VercmpFrom(ret))
  /\ UNCHANGED <<native, dbs, expected, pm_errno, views, mem>>

\* ----------------------------------------------------------- specifications

\* Spec: a client that registers and unregisters databases, keeps none of the
\* values a Database hands out and gives each database at most one server.
Next ==
  \/ \E s \in Strs : register_syncdb(s)
  \/ \E ok \in BOOLEAN : unregister_all_syncdbs(ok)
  \/ \E d \in DbPtrs : drop_db(d)
  \/ \E d \in DbPtrs : Name(d)
  \/ \E d \in DbPtrs, ok \in BOOLEAN : unregister(d, ok)
  \/ \E d \in DbPtrs, s \in Strs, ok \in BOOLEAN :
       native[d].servers = <<>> /\ add_server(d, s, ok)
  \/ \E d \in DbPtrs, s \in Strs : remove_server(d, s)
  \/ \E d \in DbPtrs : siglevel(d)
  \/ \E d \in DbPtrs, ok \in BOOLEAN : is_valid(d, ok)
  \/ \E d \in DbPtrs, u \in Usages, ok \in BOOLEAN : set_usage(d, u, ok)
  \/ \E d \in DbPtrs, ok \in BOOLEAN : usage(d, ok)
  \/ \E d \in DbPtrs, op \in DbOps : use_after_move(op, d)

Spec == Init /\ [][Next]_vars

\* SpecStrings: a client that registers one database and calls everything that
\* takes one string, and vercmp, with every string of the bounds.
NoneRegistered == \A d \in DbPtrs : native[d].state = "unalloc"

NextStrings ==
  \/ \E s \in Strs : NoneRegistered /\ register_syncdb(s)
  \/ \E d \in DbPtrs, s \in Strs, ok \in BOOLEAN : add_server(d, s, ok)
  \/ \E d \in DbPtrs, s \in Strs : remove_server(d, s)
  \/ \E d \in DbPtrs, s \in Strs : pkg(d, s, FALSE)
  \/ \E d \in DbPtrs, s \in Strs : group(d, s, FALSE)
  \/ \E a \in Strs, b \in Strs, ret \in {-1, 0, 1} : vercmp(a, b, ret)

SpecStrings == Init /\ [][NextStrings]_vars

\* SpecServers: a client that registers one database and works on its server
\* list, with every list of strings of the bounds.
NextServers ==
  \/ \E s \in Strs : NoneRegistered /\ register_syncdb(s)
  \/ \E d \in DbPtrs, s \in Strs, ok \in BOOLEAN : add_server(d, s, ok)
  \/ \E d \in DbPtrs, l \in SeqsUpTo(Strs, MaxServers), ok \in BOOLEAN : set_servers(d, l, ok)
  \/ \E d \in DbPtrs, s \in Strs : remove_server(d, s)

SpecServers == Init /\ [][NextServers]_vars
\* SpecViews: a client that keeps what a Database hands out: Packages, Groups,
\* the four list adapters and the vectors collected from them.
NulFree == {s \in Strs : ~HasNul(s)}

NextViews ==
  \/ \E s \in NulFree : register_syncdb(s)
  \/ \E d \in DbPtrs, ok \in BOOLEAN : unregister(d, ok)
  \/ unregister_all_syncdbs(TRUE)
  \/ \E d \in DbPtrs : drop_db(d)
  \/ \E d \in DbPtrs, s \in NulFree : add_server(d, s, TRUE)
  \/ \E d \in DbPtrs, s \in NulFree : pkg(d, s, TRUE)
  \/ \E d \in DbPtrs, s \in NulFree : group(d, s, TRUE)
  \/ \E d \in DbPtrs : servers_list(d, TRUE)
  \/ \E d \in DbPtrs, ok \in BOOLEAN : pkgs(d, TRUE, ok)
  \/ \E d \in DbPtrs, ok \in BOOLEAN : groups(d, TRUE, ok)
  \/ \E d \in DbPtrs, l \in SeqsUpTo(Strs, 1) : search(d, l, TRUE)
  \/ \E v \in 1..MaxViews : next(v)
  \/ \E v \in 1..MaxViews : drop_view(v)
  \/ \E v \in 1..MaxViews : collect(v)
  \/ \E v \in 1..MaxViews : use_view(v)

SpecViews == Init /\ [][NextViews]_vars

\* ------------------------------------------------------------------ claims

Registered(d) == native[d].state = "registered"

\* C3: an operation named on a Db value that unregister has consumed is
\* rejected with no native call; no native call is ever given a database the
\* library has released; a Db value the client can use is a registered
\* database; and unregister_all_syncdbs runs only when no Db value and nothing
\* borrowed from the handle is usable.  (Spec)
C3_NoUseAfterUnregister ==
  /\ last.moved => (last.res = "Rejected" /\ last.native = <<>>)
  /\ ~last.stale
  /\ \A d \in DbPtrs : Live(d) => Registered(d)
  /\ last.op = "unregister_all_syncdbs" => ((\A d \in DbPtrs : ~Live(d)) /\ NoViews)
  /\ (last.op = "unregister" /\ last.res # "Rejected") => dbs[last.db].state = "moved"

\* An operation was attempted on a database unregister had released.
C3_Witness ==
  /\ last.op = "add_server"
  /\ last.moved
  /\ last.res = "Rejected"
  /\ native[last.db].state = "freed"

\* C4: what servers() yields is the list the successful add_server,
\* remove_server and set_servers calls so far ask for: the URLs in the order
\* added, and exactly the list of the last set_servers.  (SpecServers)
C4_ServersInOrder ==
  \A d \in DbPtrs : Registered(d) => servers(d) = expected[d]

\* set_servers has just replaced the list by one of two different URLs.
C4_Witness ==
  /\ last.op = "set_servers"
  /\ last.res = "Ok"
  /\ Len(servers(last.db)) >= 2
  /\ servers(last.db)[1] # servers(last.db)[2]

\* C5: as long as the client holds the Db that register_syncdb returned,
\* name() is the (NUL-free) name it was registered under.  (Spec)
C5_NameRoundTrip ==
  \A d \in DbPtrs : Live(d) => (name(d) = dbs[d].regname /\ ~HasNul(dbs[d].regname))

\* name() was called on a database whose server list and usage had changed.
C5_Witness ==
  /\ last.op = "name"
  /\ last.res = "Ok"
  /\ native[last.db].servers # <<>>
  /\ native[last.db].usage # "ALL"
  /\ Len(dbs[last.db].regname) >= 2

\* C6: a native call that reported failure makes the operation return an
\* error carrying the library's error code.  (Spec)
C6_FailureSurfaced ==
  last.failed => (last.res = "Err" /\ last.code = pm_errno)

\* C7: an operation taking one string, or vercmp, given a string with an
\* interior NUL fails with the conversion error, calls nothing native, and
\* leaves the registry, the server lists and the last-error code as they
\* were.  (SpecStrings)
NulOps == {"register_syncdb", "add_server", "remove_server", "pkg", "group", "vercmp"}

C7_NulRejected ==
  [][(last'.nul /\ last'.op \in NulOps) =>
       (/\ last'.res = "NulError"
        /\ last'.native = <<>>
        /\ native' = native
        /\ pm_errno' = pm_errno)]_vars

\* add_server was refused a string with a NUL on a database that has servers
\* and after the library had reported an error.
C7_Witness ==
  /\ last.op = "add_server"
  /\ last.nul
  /\ last.res = "NulError"
  /\ native[last.db].servers # <<>>
  /\ pm_errno # "OK"

\* C8: set_servers given a list with an entry holding a NUL returns the
\* conversion error.  (SpecServers)
C8_SetServersNulIsError ==
  (last.op = "set_servers" /\ last.nul) => last.res = "NulError"

\* C9: the temporary list of set_servers and of search ends handed over to
\* the library or released, nodes and strings.  (SpecViews)
C9_TempListReleased ==
  last.op \in {"search", "set_servers"} => last.tmp \in {"none", "handed", "released"}

\* C2: a Package, a Group or a collected element is used only while the
\* database it came from is registered.  (SpecViews)
C2_ViewsDieWithDb ==
  last.op = "use_view" => ~last.stale

\* C1: whatever the adapters created by servers, pkgs, groups and search do
\* over their lives, no list is released twice and no adapter reads a node of
\* a list that has been released.  (SpecViews)
C1_ListFreedOnce ==
  ~mem.doubleFree /\ ~mem.uafRead

\* C10: the package cache list of a registered database is never released by
\* a view.  (SpecViews)
C10_ViewsFreeNothingNative ==
  \A d \in DbPtrs : Registered(d) => native[d].cache = "live"

====
